---- MODULE Spec2Model ----
(***************************************************************************)
(* The Langues Metric (langues_metric.py): a 6D phase-shifted exponential  *)
(* cost function, its gradient, the risk banding, the weighted distance    *)
(* and the point/vector conversions.                                       *)
(*                                                                         *)
(* Python floats are modelled as fixed-point integers: the integer n       *)
(* stands for the real n / SCALE.  Arithmetic rounds to nearest, as IEEE   *)
(* arithmetic does.  Magnitudes beyond the modelled range saturate at HUGE *)
(* ("a finite float larger than every clamp_max of the model"); math.exp   *)
(* raises OverflowError above ln(DBL_MAX), as the C library does.          *)
(***************************************************************************)
EXTENDS Integers, Sequences, FiniteSets

\* One unit of the fixed-point representation of a float: 1.0 is SCALE.
SCALE == 1000

\* The largest magnitude the fixed-point floats keep apart (1.05e6).
HUGE == 1050 * SCALE * SCALE

\* math.exp(x) raises OverflowError for x > ln(DBL_MAX) = 709.782...
EXP_MAX_ARG == 709782

\* From this argument on exp(x) exceeds HUGE (e^14 = 1.2e6).
EXP_HUGE_ARG == 14 * SCALE

\* up to this value a * SCALE and the square of its root fit 32 bits
SQRT_EXACT == 2000 * SCALE

\* ------------------------------------------------------------------------
\* Float arithmetic.  The operations are functions of their operands, so an
\* operand is evaluated once, as Python evaluates it.
\* ------------------------------------------------------------------------

\* abs(a)
Abs[a \in Int] == IF a < 0 THEN -a ELSE a

Sgn[a \in Int] == IF a < 0 THEN -1 ELSE IF a > 0 THEN 1 ELSE 0

Clip[a \in Int] == IF a > HUGE THEN HUGE ELSE IF a < -HUGE THEN -HUGE ELSE a

\* a + b
Add[a \in Int, b \in Int] == Clip[a + b]

\* a - b
Sub[a \in Int, b \in Int] == Clip[a - b]

\* a / k for a >= 0 and an integer k > 0, rounded to nearest
DivRound[a \in Nat, k \in Nat] == (a + k \div 2) \div k

\* a * b for a, b >= 0
MulMag[a \in Nat, b \in Nat] ==
    IF a = 0 \/ b = 0 THEN 0
    ELSE IF a >= HUGE \/ b >= HUGE THEN HUGE
    ELSE LET ah == a \div SCALE
             al == a % SCALE
             bh == b \div SCALE
             bl == b % SCALE
             hh == IF ah = 0 \/ bh = 0 THEN 0
                   ELSE IF ah > (HUGE \div SCALE) \div bh THEN HUGE
                   ELSE ah * bh * SCALE
         IN  IF hh >= HUGE THEN HUGE
             ELSE Clip[Clip[hh + ah * bl] + Clip[al * bh + DivRound[al * bl, SCALE]]]

\* a * b
Mul[a \in Int, b \in Int] == Sgn[a] * Sgn[b] * MulMag[Abs[a], Abs[b]]

\* a ** 2
Square[a \in Int] == Mul[a, a]

\* a ** k for an integer k >= 0
Pow[a \in Int, k \in Nat] == IF k = 0 THEN SCALE ELSE Mul[Pow[a, k - 1], a]

\* the largest r in lo .. hi with r * r <= a, by bisection: the square is
\* taken exactly below SQRT_EXACT, where it fits the machine word, and rounded above
SqrtSearch[a \in Int, lo \in Nat, hi \in Nat] ==
    IF lo >= hi THEN lo
    ELSE LET mid == (lo + hi + 1) \div 2
             le  == IF a <= SQRT_EXACT THEN mid * mid <= a * SCALE
                    ELSE MulMag[mid, mid] <= a
         IN  IF le THEN SqrtSearch[a, mid, hi] ELSE SqrtSearch[a, lo, mid - 1]

\* math.sqrt(a) for a >= 0
Sqrt[a \in Int] ==
    IF a >= HUGE THEN HUGE
    ELSE IF a <= SQRT_EXACT THEN SqrtSearch[a, 0, 44721]
    ELSE SqrtSearch[a, 44721, 1025 * SCALE]

\* sum_{j>=k} f^j / j!, given the term before: for 0 <= f <= SCALE
ExpSeries[f \in Nat, k \in Nat, term \in Nat] ==
    IF term = 0 THEN 0
    ELSE term + ExpSeries[f, k + 1, DivRound[MulMag[term, f], k]]

\* exp(f) for 0 <= f <= 1, tabulated once
ExpFrac == [f \in 0..SCALE |-> ExpSeries[f, 1, SCALE]]

\* e ** n for n = 0 .. 14
ExpNat[n \in 0..(EXP_HUGE_ARG \div SCALE)] ==
    IF n = 0 THEN SCALE ELSE MulMag[ExpNat[n - 1], ExpFrac[SCALE]]

\* exp(x) for x >= 0
ExpPos[x \in Nat] ==
    IF x >= EXP_HUGE_ARG THEN HUGE
    ELSE MulMag[ExpNat[x \div SCALE], ExpFrac[x % SCALE]]

\* math.exp raises OverflowError ("math range error")
ExpOverflows[x \in Int] == x > EXP_MAX_ARG

\* math.exp(x) where it returns; exp of a large negative number underflows to 0
Exp[x \in Int] ==
    IF x >= 0 THEN ExpPos[x]
    ELSE IF ExpPos[-x] >= HUGE THEN 0 ELSE DivRound[SCALE * SCALE, ExpPos[-x]]

\* math.pi
PI == 3142

\* sin on [0, pi/2]: x - x^3/3! + x^5/5! - x^7/7! + x^9/9!
SinQ[x \in Nat] ==
    LET x2 == MulMag[x, x]
        x3 == MulMag[x2, x]
        x5 == MulMag[x3, x2]
        x7 == MulMag[x5, x2]
        x9 == MulMag[x7, x2]
        s  == x - DivRound[x3, 6] + DivRound[x5, 120]
                - DivRound[x7, 5040] + DivRound[x9, 362880]
    IN  IF s > SCALE THEN SCALE ELSE IF s < 0 THEN 0 ELSE s

\* cos on [0, pi/2]: 1 - x^2/2! + x^4/4! - x^6/6! + x^8/8!
CosQ[x \in Nat] ==
    LET x2 == MulMag[x, x]
        x4 == MulMag[x2, x2]
        x6 == MulMag[x4, x2]
        x8 == MulMag[x4, x4]
        c  == SCALE - DivRound[x2, 2] + DivRound[x4, 24]
                - DivRound[x6, 720] + DivRound[x8, 40320]
    IN  IF c > SCALE THEN SCALE ELSE IF c < 0 THEN 0 ELSE c

\* sin on [0, 2 pi), by symmetry from [0, pi/2]; tabulated once
SinReduced ==
    [r \in 0..(2 * PI - 1) |->
        LET h == IF r > PI THEN r - PI ELSE r
            q == IF 2 * h > PI THEN PI - h ELSE h
        IN  IF r > PI THEN -SinQ[q] ELSE SinQ[q]]

\* math.sin(x): reduce modulo 2 pi
Sin[x \in Int] == SinReduced[x % (2 * PI)]

\* math.cos(x): reduce modulo 2 pi, then by symmetry to [0, pi/2]
Cos[x \in Int] ==
    LET r == x % (2 * PI)
        h == IF r > PI THEN 2 * PI - r ELSE r
    IN  IF 2 * h > PI THEN -CosQ[PI - h] ELSE CosQ[h]

\* min(a, b)
Min[a \in Int, b \in Int] == IF b < a THEN b ELSE a

\* ------------------------------------------------------------------------
\* Module constants (langues_metric.py, lines 36-61)
\* ------------------------------------------------------------------------

\* PHI = (1 + math.sqrt(5)) / 2
PHI == (SCALE + Sqrt[5 * SCALE]) \div 2

\* TAU = 2 * math.pi
TAU == 2 * PI

NDIM == 6

Dims == 1..NDIM

TONGUES == <<"KO", "AV", "RU", "CA", "UM", "DR">>

DIMENSIONS == <<"time", "intent", "policy", "trust", "risk", "entropy">>

\* TONGUE_WEIGHTS = [PHI ** k for k in range(6)]
InitWeights == [l \in Dims |-> Pow[PHI, l - 1]]

\* TONGUE_PHASES = [TAU * k / 6 for k in range(6)]
InitPhases == [l \in Dims |-> DivRound[TAU * (l - 1), 6]]

\* TONGUE_FREQUENCIES = [1.0, 9/8, 5/4, 4/3, 3/2, 5/3]
InitFrequencies ==
    <<SCALE, DivRound[9 * SCALE, 8], DivRound[5 * SCALE, 4],
      DivRound[4 * SCALE, 3], DivRound[3 * SCALE, 2], DivRound[5 * SCALE, 3]>>

\* ------------------------------------------------------------------------
\* HyperspacePoint and IdealState
\* ------------------------------------------------------------------------

\* HyperspacePoint(time, intent, policy, trust, risk, entropy)
HyperspacePoint(tm, it, po, tr, ri, en) ==
    [time |-> tm, intent |-> it, policy |-> po, trust |-> tr, risk |-> ri, entropy |-> en]

\* IdealState(): time=0.0, intent=0.0, policy=0.5, trust=0.9, risk=0.1, entropy=0.2
IdealState ==
    [time |-> 0, intent |-> 0, policy |-> SCALE \div 2, trust |-> (9 * SCALE) \div 10,
     risk |-> SCALE \div 10, entropy |-> SCALE \div 5]

\* HyperspacePoint.to_vector / IdealState.to_vector
to_vector(p) == <<p.time, p.intent, p.policy, p.trust, p.risk, p.entropy>>

\* v[0] .. v[5] can be read: a shorter list raises IndexError at the first
\* missing index, a longer one is read up to v[5]
from_vector_raises(v) == Len(v) < NDIM

\* HyperspacePoint.from_vector(v) where it returns
from_vector(v) == HyperspacePoint(v[1], v[2], v[3], v[4], v[5], v[6])

\* ------------------------------------------------------------------------
\* State
\* ------------------------------------------------------------------------

VARIABLES
    TONGUE_WEIGHTS,      \* module-level list, line 44
    TONGUE_PHASES,       \* module-level list, line 47
    TONGUE_FREQUENCIES,  \* module-level list, lines 51-58
    beta_base,           \* self.beta_base
    clamp_max,           \* self.clamp_max
    ideal,               \* self.ideal
    betas,               \* self.betas
    op,                  \* the last call made
    args,                \* its arguments
    ret                  \* what it returned or raised

globals == <<TONGUE_WEIGHTS, TONGUE_PHASES, TONGUE_FREQUENCIES>>

instance == <<beta_base, clamp_max, ideal, betas>>

vars == <<TONGUE_WEIGHTS, TONGUE_PHASES, TONGUE_FREQUENCIES,
          beta_base, clamp_max, ideal, betas, op, args, ret>>

\* Optional[...] arguments
None == [given |-> FALSE]

Some(v) == [given |-> TRUE, value |-> v]

\* Python truthiness of an Optional[List[str]]: None and [] are falsy
Truthy(o) == o.given /\ o.value # {}

Return(v) == [kind |-> "return", value |-> v]

Raise(e) == [kind |-> "raise", exc |-> e]

\* LanguesMetric.__init__(beta_base, clamp_max, ideal)
LanguesMetric(bb, cm, id) ==
    [beta_base |-> bb,
     clamp_max |-> cm,
     ideal     |-> IF id.given THEN id.value ELSE IdealState,
     betas     |-> [l \in Dims |-> Add[bb, Mul[SCALE \div 10, Cos[TONGUE_PHASES[l]]]]]]

\* LanguesMetric(): beta_base=1.0, clamp_max=1e6, ideal=None
DefaultMetric == LanguesMetric(SCALE, SCALE * SCALE * SCALE, None)

\* the instance the methods are called on
Self == [beta_base |-> beta_base, clamp_max |-> clamp_max, ideal |-> ideal, betas |-> betas]

\* ------------------------------------------------------------------------
\* LanguesMetric methods
\* ------------------------------------------------------------------------

\* compute_deviations with the abs() forgotten
compute_deviations_signed(self, x) ==
    LET x_vec  == to_vector(x)
        mu_vec == to_vector(self.ideal)
    IN  [l \in Dims |-> Sub[x_vec[l], mu_vec[l]]]

\* compute_deviations: d_l = |x_l - mu_l|
compute_deviations(self, x) ==
    LET x_vec  == to_vector(x)
        mu_vec == to_vector(self.ideal)
    IN  [l \in Dims |-> Abs[Sub[x_vec[l], mu_vec[l]]]]

\* the for loop of compute, from dimension l on, with the running sum L
RECURSIVE ComputeLoop(_, _, _, _, _, _)
ComputeLoop(self, deviations, t, active_tongues, l, L) ==
    IF l > NDIM THEN Return(L)
    ELSE IF Truthy(active_tongues) /\ TONGUES[l] \notin active_tongues.value
    THEN ComputeLoop(self, deviations, t, active_tongues, l + 1, L)
    ELSE LET w_l         == TONGUE_WEIGHTS[l]
             beta_l      == self.betas[l]
             omega_l     == TONGUE_FREQUENCIES[l]
             phi_l       == TONGUE_PHASES[l]
             d_l         == deviations[l]
             phase_shift == Sin[Add[Mul[omega_l, t], phi_l]]
             shifted_d   == Add[d_l, Mul[SCALE \div 10, phase_shift]]
         IN  IF ExpOverflows[Mul[beta_l, shifted_d]] THEN Raise("OverflowError")
             ELSE ComputeLoop(self, deviations, t, active_tongues, l + 1,
                              Add[L, Mul[w_l, Exp[Mul[beta_l, shifted_d]]]])

\* compute with the final min(L, self.clamp_max) forgotten
compute_unclamped(self, x, t, active_tongues) ==
    ComputeLoop(self, compute_deviations(self, x), t, active_tongues, 1, 0)

\* compute(x, t, active_tongues): the loop, then min(L, self.clamp_max)
compute(self, x, t, active_tongues) ==
    LET r == ComputeLoop(self, compute_deviations(self, x), t, active_tongues, 1, 0)
    IN  IF r.kind = "raise" THEN r ELSE Return(Min[r.value, self.clamp_max])

\* the loop of compute_gradient with the sign taken by > instead of >=
RECURSIVE GradientLoop_strict(_, _, _, _, _, _)
GradientLoop_strict(self, deviations, x_vec, t, l, grad) ==
    IF l > NDIM THEN Return(grad)
    ELSE LET mu_vec      == to_vector(self.ideal)
             w_l         == TONGUE_WEIGHTS[l]
             beta_l      == self.betas[l]
             omega_l     == TONGUE_FREQUENCIES[l]
             phi_l       == TONGUE_PHASES[l]
             d_l         == deviations[l]
             phase_shift == Sin[Add[Mul[omega_l, t], phi_l]]
             shifted_d   == Add[d_l, Mul[SCALE \div 10, phase_shift]]
             sign        == IF x_vec[l] > mu_vec[l] THEN SCALE ELSE -SCALE
         IN  IF ExpOverflows[Mul[beta_l, shifted_d]] THEN Raise("OverflowError")
             ELSE GradientLoop_strict(self, deviations, x_vec, t, l + 1,
                      Append(grad, Mul[Mul[Mul[w_l, beta_l], Exp[Mul[beta_l, shifted_d]]], sign]))

\* the for loop of compute_gradient, from dimension l on, with the list grad
RECURSIVE GradientLoop(_, _, _, _, _, _)
GradientLoop(self, deviations, x_vec, t, l, grad) ==
    IF l > NDIM THEN Return(grad)
    ELSE LET mu_vec      == to_vector(self.ideal)
             w_l         == TONGUE_WEIGHTS[l]
             beta_l      == self.betas[l]
             omega_l     == TONGUE_FREQUENCIES[l]
             phi_l       == TONGUE_PHASES[l]
             d_l         == deviations[l]
             phase_shift == Sin[Add[Mul[omega_l, t], phi_l]]
             shifted_d   == Add[d_l, Mul[SCALE \div 10, phase_shift]]
             sign        == IF x_vec[l] >= mu_vec[l] THEN SCALE ELSE -SCALE
         IN  IF ExpOverflows[Mul[beta_l, shifted_d]] THEN Raise("OverflowError")
             ELSE GradientLoop(self, deviations, x_vec, t, l + 1,
                      Append(grad, Mul[Mul[Mul[w_l, beta_l], Exp[Mul[beta_l, shifted_d]]], sign]))

\* compute_gradient(x, t)
compute_gradient(self, x, t) ==
    GradientLoop(self, compute_deviations(self, x), to_vector(x), t, 1, <<>>)

\* sum(TONGUE_WEIGHTS)
RECURSIVE SumList(_, _)
SumList(xs, n) == IF n = 0 THEN 0 ELSE Add[SumList(xs, n - 1), xs[n]]

\* risk_level with <= for <: a boundary value falls into the lower band
risk_level_inclusive(L) ==
    LET L_base == SumList(TONGUE_WEIGHTS, NDIM)
    IN  IF L <= Mul[L_base, (3 * SCALE) \div 2] THEN <<"LOW", "ALLOW">>
        ELSE IF L <= Mul[L_base, 3 * SCALE] THEN <<"MEDIUM", "QUARANTINE">>
        ELSE IF L <= Mul[L_base, 10 * SCALE] THEN <<"HIGH", "REVIEW">>
        ELSE <<"CRITICAL", "DENY">>

\* risk_level with L_base summed over range(5), one weight short
risk_level_short_base(L) ==
    LET L_base == SumList(TONGUE_WEIGHTS, NDIM - 1)
    IN  IF L < Mul[L_base, (3 * SCALE) \div 2] THEN <<"LOW", "ALLOW">>
        ELSE IF L < Mul[L_base, 3 * SCALE] THEN <<"MEDIUM", "QUARANTINE">>
        ELSE IF L < Mul[L_base, 10 * SCALE] THEN <<"HIGH", "REVIEW">>
        ELSE <<"CRITICAL", "DENY">>

\* risk_level(L)
risk_level(L) ==
    LET L_base == SumList(TONGUE_WEIGHTS, NDIM)
    IN  IF L < Mul[L_base, (3 * SCALE) \div 2] THEN <<"LOW", "ALLOW">>
        ELSE IF L < Mul[L_base, 3 * SCALE] THEN <<"MEDIUM", "QUARANTINE">>
        ELSE IF L < Mul[L_base, 10 * SCALE] THEN <<"HIGH", "REVIEW">>
        ELSE <<"CRITICAL", "DENY">>

\* the loop of langues_distance with the difference not squared
RECURSIVE DistanceLoop_unsquared(_, _, _, _)
DistanceLoop_unsquared(v1, v2, l, d_sq) ==
    IF l > NDIM THEN d_sq
    ELSE LET w_l  == TONGUE_WEIGHTS[l]
             diff == Sub[v1[l], v2[l]]
         IN  DistanceLoop_unsquared(v1, v2, l + 1, Add[d_sq, Mul[w_l, diff]])

\* the for loop of langues_distance
RECURSIVE DistanceLoop(_, _, _, _)
DistanceLoop(v1, v2, l, d_sq) ==
    IF l > NDIM THEN d_sq
    ELSE LET w_l  == TONGUE_WEIGHTS[l]
             diff == Sub[v1[l], v2[l]]
         IN  DistanceLoop(v1, v2, l + 1, Add[d_sq, Mul[w_l, Square[diff]]])

\* langues_distance(x1, x2, metric)
langues_distance(x1, x2, metric) ==
    LET m == IF metric.given THEN metric.value ELSE DefaultMetric
    IN  Sqrt[DistanceLoop(to_vector(x1), to_vector(x2), 1, 0)]

\* the deltas of verify_monotonicity, line 283
Deltas == <<SCALE \div 10, SCALE \div 5, (3 * SCALE) \div 10, SCALE \div 2, SCALE>>

\* the point verify_monotonicity tests at dimension dim and delta number k;
\* for k = 0 the ideal point, whose value the dimension starts with as L_prev
TestPoint(point, dim, k) ==
    IF k = 0 THEN point
    ELSE from_vector([to_vector(point) EXCEPT ![dim] = Add[@, Deltas[k]]])

\* verify_monotonicity(): False at the first L_curr <= L_prev, True when the
\* loops end.  The metric and the values L are each computed once.
verify_monotonicity ==
    LET point == HyperspacePoint(0, 0, SCALE \div 2, (9 * SCALE) \div 10, SCALE \div 10, SCALE \div 5)
    IN  \A metric \in {[DefaultMetric EXCEPT !.ideal = from_vector(to_vector(point))]} :
        \A L \in {[dim \in Dims |-> [k \in 0..Len(Deltas) |->
                     compute(metric, TestPoint(point, dim, k), 0, None).value]]} :
            ~ \E dim \in Dims : \E k \in 1..Len(Deltas) : L[dim][k] <= L[dim][k - 1]

\* ------------------------------------------------------------------------
\* Inputs
\* ------------------------------------------------------------------------

\* t ranges over 0, 0.5, ..., MaxT / 2
MaxT == 2

\* the large deviations are BigDev and BigDev + 1 (both beyond the clamp of
\* the default metric)
BigDev == 20

\* risk_level is called with L = -20, 0, 20, ..., 20 * MaxBand, and around each
\* threshold
MaxBand == 15

\* from_vector is called with lists of 0 .. MaxLen elements
MaxLen == 8

\* langues_distance is called on points moved by 0, 0.1, ..., MaxCoord / 10
MaxCoord == 1

Times == {(k * SCALE) \div 2 : k \in 0..MaxT}

\* the point at the default ideal state (the "safe" state of the demo, line 370)
IdealPoint ==
    HyperspacePoint(0, 0, SCALE \div 2, (9 * SCALE) \div 10, SCALE \div 10, SCALE \div 5)

\* the "attack" state of the demo, line 382
AttackPoint ==
    HyperspacePoint(0, (3 * SCALE) \div 2, SCALE \div 10, SCALE \div 5,
                    (9 * SCALE) \div 10, (4 * SCALE) \div 5)

\* HyperspacePoint(): the dataclass defaults, lines 67-72
DefaultPoint ==
    HyperspacePoint(0, 0, 0, (4 * SCALE) \div 5, SCALE \div 10, SCALE \div 10)

BasePoints == {IdealPoint, AttackPoint}

\* p moved by delta along dimension dim
Moved(p, dim, delta) == from_vector([to_vector(p) EXCEPT ![dim] = @ + delta])

\* deviations along one axis: the increments of verify_monotonicity, one below
\* the ideal, two large ones, and one whose exponential is out of range
AxisDeltas ==
    {Deltas[k] : k \in 1..Len(Deltas)}
    \cup {-(SCALE \div 2), BigDev * SCALE, (BigDev + 1) * SCALE, 800 * SCALE}

AxisPoints == {Moved(IdealPoint, dim, d) : dim \in Dims, d \in AxisDeltas}

TongueSets == SUBSET {TONGUES[l] : l \in Dims}

\* active_tongues: omitted, empty, one tongue, a string that is no tongue
ActiveChoices == {None, Some({}), Some({"KO"}), Some({"XX"})}

ComputeArgs ==
    {[x |-> p, t |-> 0, active_tongues |-> None] : p \in AxisPoints}
    \cup {[x |-> p, t |-> t, active_tongues |-> a] :
            p \in BasePoints, t \in Times, a \in ActiveChoices}
    \cup {[x |-> AttackPoint, t |-> 0, active_tongues |-> Some(S)] : S \in TongueSets}

\* one point below and one above the ideal along each axis, a large
\* deviation, and one whose exponential is out of range
GradientPoints ==
    {Moved(IdealPoint, dim, d) : dim \in Dims, d \in {-(SCALE \div 2), SCALE \div 2}}
    \cup {Moved(IdealPoint, 1, BigDev * SCALE), Moved(IdealPoint, NDIM, 800 * SCALE)}

GradientArgs ==
    {[x |-> p, t |-> 0] : p \in GradientPoints}
    \cup {[x |-> p, t |-> t] : p \in BasePoints, t \in Times}

DeviationArgs ==
    {[x |-> p] : p \in BasePoints}
    \cup {[x |-> Moved(IdealPoint, dim, -(SCALE \div 2))] : dim \in Dims}

Thresholds ==
    LET L_base == SumList(InitWeights, NDIM)
    IN  {Mul[L_base, (3 * SCALE) \div 2], Mul[L_base, 3 * SCALE], Mul[L_base, 10 * SCALE]}

RiskArgs ==
    {[L |-> 20 * k * SCALE] : k \in -1..MaxBand}
    \cup {[L |-> b + e] : b \in Thresholds, e \in {-1, 0, 1}}

\* the points of langues_distance
DistancePoints ==
    {IdealPoint, AttackPoint}
    \cup {Moved(DefaultPoint, 1, (a * SCALE) \div 10) : a \in 0..MaxCoord}
    \cup {Moved(DefaultPoint, NDIM, -((a * SCALE) \div 10)) : a \in 0..MaxCoord}

\* the metric argument of langues_distance: omitted, or a metric with another
\* beta_base, clamp_max and ideal
MetricChoices ==
    {None, Some(LanguesMetric(SCALE \div 2, 50 * SCALE, Some(AttackPoint)))}

DistanceArgs ==
    {[x1 |-> a, x2 |-> b, metric |-> m] :
        a \in DistancePoints, b \in DistancePoints, m \in MetricChoices}

\* the list 0.1, 0.2, ... of n elements
RampVector(n) == [i \in 1..n |-> (i * SCALE) \div 10]

VectorArgs ==
    {[v |-> RampVector(n)] : n \in 0..MaxLen}
    \cup {[v |-> to_vector(p)] : p \in BasePoints \cup {DefaultPoint}}

\* the configurations a metric is constructed with: the defaults, a negative
\* clamp_max, and another beta_base, clamp_max and ideal
Configs ==
    {[beta_base |-> SCALE, clamp_max |-> SCALE * SCALE * SCALE, ideal |-> None],
     [beta_base |-> SCALE, clamp_max |-> -5 * SCALE, ideal |-> None],
     [beta_base |-> SCALE \div 2, clamp_max |-> 30 * SCALE, ideal |-> Some(DefaultPoint)]}

\* ------------------------------------------------------------------------
\* Behaviour
\* ------------------------------------------------------------------------

\* the module is loaded and a metric is constructed
Init ==
    /\ TONGUE_WEIGHTS = InitWeights
    /\ TONGUE_PHASES = InitPhases
    /\ TONGUE_FREQUENCIES = InitFrequencies
    /\ \E c \in Configs :
          LET m == LanguesMetric(c.beta_base, c.clamp_max, c.ideal)
          IN  /\ beta_base = m.beta_base
              /\ clamp_max = m.clamp_max
              /\ ideal = m.ideal
              /\ betas = m.betas
    /\ op = "__init__"
    /\ args = <<>>
    /\ ret = Return(<<>>)

\* compute that also stores the point it was given as the new ideal
Compute_storing ==
    \E a \in ComputeArgs :
        /\ op' = "compute"
        /\ args' = a
        /\ ret' = compute(Self, a.x, a.t, a.active_tongues)
        /\ ideal' = a.x
        /\ UNCHANGED <<globals, beta_base, clamp_max, betas>>

Compute ==
    \E a \in ComputeArgs :
        /\ op' = "compute"
        /\ args' = a
        /\ ret' = compute(Self, a.x, a.t, a.active_tongues)
        /\ UNCHANGED <<globals, instance>>

ComputeGradient ==
    \E a \in GradientArgs :
        /\ op' = "compute_gradient"
        /\ args' = a
        /\ ret' = compute_gradient(Self, a.x, a.t)
        /\ UNCHANGED <<globals, instance>>

ComputeDeviations ==
    \E a \in DeviationArgs :
        /\ op' = "compute_deviations"
        /\ args' = a
        /\ ret' = Return(compute_deviations(Self, a.x))
        /\ UNCHANGED <<globals, instance>>

RiskLevel ==
    \E a \in RiskArgs :
        /\ op' = "risk_level"
        /\ args' = a
        /\ ret' = Return(risk_level(a.L))
        /\ UNCHANGED <<globals, instance>>

LanguesDistance ==
    \E a \in DistanceArgs :
        /\ op' = "langues_distance"
        /\ args' = a
        /\ ret' = Return(langues_distance(a.x1, a.x2, a.metric))
        /\ UNCHANGED <<globals, instance>>

FromVector ==
    \E a \in VectorArgs :
        /\ op' = "from_vector"
        /\ args' = a
        /\ ret' = IF from_vector_raises(a.v) THEN Raise("IndexError")
                  ELSE Return(from_vector(a.v))
        /\ UNCHANGED <<globals, instance>>

VerifyMonotonicity ==
    /\ op' = "verify_monotonicity"
    /\ args' = <<>>
    /\ ret' = Return(verify_monotonicity)
    /\ UNCHANGED <<globals, instance>>

\* the metric and its methods, and the self-test that uses them
Next ==
    \/ Compute
    \/ ComputeGradient
    \/ ComputeDeviations
    \/ RiskLevel
    \/ VerifyMonotonicity

Spec == Init /\ [][Next]_vars

\* the helpers that take no metric state: the distance and the conversion
HelperNext ==
    \/ LanguesDistance
    \/ FromVector

HelperSpec == Init /\ [][HelperNext]_vars

\* ------------------------------------------------------------------------
\* Properties
\* ------------------------------------------------------------------------

Returned == ret.kind = "return"

\* the metric LanguesMetric() constructs
IsDefaultMetric ==
    beta_base = SCALE /\ clamp_max = SCALE * SCALE * SCALE /\ ideal = IdealState

\* phi^0 + ... + phi^5
LBase ==
    TONGUE_WEIGHTS[1] + TONGUE_WEIGHTS[2] + TONGUE_WEIGHTS[3]
        + TONGUE_WEIGHTS[4] + TONGUE_WEIGHTS[5] + TONGUE_WEIGHTS[6]

\* d_l + 0.1 * sin(frequency[l] * t + phase[l]) for the instance
ShiftedD(x, t, l) ==
    Add[Abs[Sub[to_vector(x)[l], to_vector(ideal)[l]]],
        Mul[SCALE \div 10, Sin[Add[Mul[TONGUE_FREQUENCIES[l], t], TONGUE_PHASES[l]]]]]

\* weight[l] * exp(beta[l] * shifted_d_l)
Term(x, t, l) == Mul[TONGUE_WEIGHTS[l], Exp[Mul[betas[l], ShiftedD(x, t, l)]]]

\* the terms of the dimensions 1 .. l whose tongue is in S, summed in order
RECURSIVE SumTerms(_, _, _, _)
SumTerms(x, t, S, l) ==
    IF l = 0 THEN 0
    ELSE Add[SumTerms(x, t, S, l - 1), IF TONGUES[l] \in S THEN Term(x, t, l) ELSE 0]

\* x is at the ideal in every dimension but l
OnAxis(x, l) == \A k \in Dims \ {l} : to_vector(x)[k] = to_vector(ideal)[k]

\* |x_l - ideal_l|
Deviation(x, l) == Abs[to_vector(x)[l] - to_vector(ideal)[l]]

\* a compute call at t = 0 with active_tongues omitted
PlainCall(a) == a.t = 0 /\ ~a.active_tongues.given

\* two compute calls in a row, both returning, the second with the larger
\* deviation along one axis
AxisStep(l) ==
    /\ op = "compute" /\ op' = "compute"
    /\ ret.kind = "return" /\ ret'.kind = "return"
    /\ PlainCall(args) /\ PlainCall(args')
    /\ OnAxis(args.x, l) /\ OnAxis(args'.x, l)
    /\ Deviation(args'.x, l) > Deviation(args.x, l)

\* C1: risk_level(L) returns one of the four pairs, chosen by the half-open
\* bands against L_base = sum of the 6 weights; a value equal to a boundary
\* (1.5, 3 or 10 times L_base) falls into the higher band.
C1_RiskBands ==
    op = "risk_level" =>
        LET L == args.L
        IN  /\ ret.value \in {<<"LOW", "ALLOW">>, <<"MEDIUM", "QUARANTINE">>,
                              <<"HIGH", "REVIEW">>, <<"CRITICAL", "DENY">>}
            /\ (2 * L < 3 * LBase) => ret.value = <<"LOW", "ALLOW">>
            /\ (2 * L >= 3 * LBase /\ L < 3 * LBase) => ret.value = <<"MEDIUM", "QUARANTINE">>
            /\ (L >= 3 * LBase /\ L < 10 * LBase) => ret.value = <<"HIGH", "REVIEW">>
            /\ (L >= 10 * LBase) => ret.value = <<"CRITICAL", "DENY">>

\* risk_level was called with L exactly 3 * L_base and answered HIGH
C1_Witness ==
    op = "risk_level" /\ args.L = 3 * LBase /\ ret.value = <<"HIGH", "REVIEW">>

\* C2 as claimed: for any metric instance, every value compute returns is
\* between 0 and clamp_max.
C2_WithinZeroAndClamp ==
    (op = "compute" /\ Returned) => (0 <= ret.value /\ ret.value <= clamp_max)

\* C2 amended: for a metric with clamp_max >= 0, every value compute returns
\* is between 0 and clamp_max; with clamp_max < 0 it returns clamp_max.
C2_WithinClampWhenNonNegative ==
    (op = "compute" /\ Returned) =>
        /\ ret.value <= clamp_max
        /\ clamp_max >= 0 => ret.value >= 0
        /\ clamp_max < 0 => ret.value = clamp_max

\* compute returned a sum that was cut to a positive clamp_max
C2_Witness ==
    op = "compute" /\ Returned /\ clamp_max > 0 /\ ret.value = clamp_max

\* C3 as claimed: with the default metric and t = 0 the attack point yields an
\* L that risk_level classifies as CRITICAL / DENY, L >= 10 * L_base.
C3_AttackIsCritical ==
    (op = "compute" /\ IsDefaultMetric
        /\ args = [x |-> AttackPoint, t |-> 0, active_tongues |-> None]) =>
        /\ Returned
        /\ risk_level(ret.value) = <<"CRITICAL", "DENY">>
        /\ ret.value >= 10 * LBase

\* C3 amended: with the default metric and t = 0 the attack point yields an L
\* that risk_level classifies as MEDIUM / QUARANTINE: 1.5 * L_base <= L < 3 * L_base.
C3_AttackIsMedium ==
    (op = "compute" /\ IsDefaultMetric
        /\ args = [x |-> AttackPoint, t |-> 0, active_tongues |-> None]) =>
        /\ Returned
        /\ risk_level(ret.value) = <<"MEDIUM", "QUARANTINE">>
        /\ 2 * ret.value >= 3 * LBase
        /\ ret.value < 3 * LBase

\* the default metric has computed the attack point at t = 0
C3_Witness ==
    /\ op = "compute" /\ IsDefaultMetric /\ Returned
    /\ args = [x |-> AttackPoint, t |-> 0, active_tongues |-> None]
    /\ ret.value > LBase

\* C4: compute never ends in an error; where an exponential term overflows
\* it returns the clamped sum instead of raising.
C4_ComputeNeverRaises == op = "compute" => Returned

\* C5: for every supplied active_tongues set S, the empty set included, compute
\* accumulates the term of dimension l if and only if TONGUES[l] is in S.
C5_ExactlyTheActiveTerms ==
    (op = "compute" /\ Returned /\ args.active_tongues.given) =>
        ret.value = Min[SumTerms(args.x, args.t, args.active_tongues.value, NDIM), clamp_max]

C7_MethodsChangeNothing ==
    [][/\ beta_base' = beta_base /\ clamp_max' = clamp_max
       /\ ideal' = ideal /\ betas' = betas
       /\ TONGUE_WEIGHTS' = TONGUE_WEIGHTS /\ TONGUE_PHASES' = TONGUE_PHASES
       /\ TONGUE_FREQUENCIES' = TONGUE_FREQUENCIES
       /\ \A l \in Dims :
            betas'[l] = Add[beta_base', Mul[SCALE \div 10, Cos[TONGUE_PHASES'[l]]]]
       /\ (op' = op /\ args' = args) => ret' = ret]_vars

\* a method has been called and the fourth beta (phase 180 degrees) is still
\* beta_base - 0.1
C7_Witness ==
    /\ op \in {"compute", "compute_gradient", "compute_deviations", "risk_level"}
    /\ betas[4] = beta_base - SCALE \div 10

\* C8: from_vector rejects every list whose length is not 6, shorter or longer,
\* and constructs no point; for a list of length 6, from_vector(v).to_vector() = v.
C8_FromVectorChecksLength ==
    op = "from_vector" =>
        IF Len(args.v) = NDIM
        THEN Returned /\ to_vector(ret.value) = args.v
        ELSE ret.kind = "raise"

====
